---- MODULE Spec2Model ----
(***************************************************************************)
(* Model of the Streamlit catalog importer, src/app.py.                    *)
(*                                                                         *)
(* One execution of main() is modelled from the point where the widgets    *)
(* have their values: the account-access check, the "Start Import" button, *)
(* the four setup steps, the product-page loop, and the category /         *)
(* subcategory double loop.  Every remote call is one step; the remote     *)
(* service and the functions of csvToCatalog are the environment, whose    *)
(* answers (success, exception, response body) are chosen                  *)
(* nondeterministically.  `calls` records every remote call the run makes. *)
(***************************************************************************)
EXTENDS Integers, Sequences, FiniteSets, TLC

\* ---------------------------------------------------------------- bounds
MaxRows == 3            \* rows of the uploaded CSV
MaxPages == 3           \* pages the remote product listing can hold

\* ------------------------------------------------------ program constants
page_size == 500

\* ------------------------------------------------------------ input sets
Category1Names == {"Food", "Bakery"}
Category2Names == {"Drinks", "Snacks"}
PluCodes == {"P1", "P2"}

\* The rows a CSV can hold: "Food" has two subcategories, each with a
\* matched and an unmatched PLU; "Bakery" has one, also named "Drinks".
Row ==
    {r \in [category1 : Category1Names, category2 : Category2Names, plu : PluCodes] :
        r.category1 = "Bakery" => (r.category2 = "Drinks" /\ r.plu = "P1")}

RECURSIVE SeqsUpTo(_, _)
SeqsUpTo(S, n) ==
    IF n = 0 THEN {<<>>}
    ELSE LET shorter == SeqsUpTo(S, n - 1)
         IN  shorter \cup {Append(s, x) : s \in {t \in shorter : Len(t) = n - 1}, x \in S}

\* Python's None for a product id, a page number or a page count.
None == -1

\* Python truthiness of an optional integer: None and 0 are false.
Truthy(x) == x # None /\ x # 0

\* ------------------------------------------------ csvToCatalog (imported)
\* createStructure: fold the rows into Category1 -> Category2 -> PLU list,
\* both levels in order of first appearance (an ordered dict is a sequence
\* of entries with distinct names).
IndexOf(entries, name) ==
    LET hits == {i \in 1..Len(entries) : entries[i].name = name}
    IN  IF hits = {} THEN 0 ELSE CHOOSE i \in hits : TRUE

AddPlu(subs, c2, plu) ==
    LET j == IndexOf(subs, c2)
    IN  IF j = 0 THEN Append(subs, [name |-> c2, plu_list |-> <<plu>>])
        ELSE [subs EXCEPT ![j].plu_list = Append(@, plu)]

AddRow(struct, row) ==
    LET i == IndexOf(struct, row.category1)
    IN  IF i = 0
        THEN Append(struct, [name |-> row.category1,
                             subs |-> AddPlu(<<>>, row.category2, row.plu)])
        ELSE [struct EXCEPT ![i].subs = AddPlu(@, row.category2, row.plu)]

RECURSIVE createStructure(_)
createStructure(rs) ==
    IF rs = <<>> THEN <<>>
    ELSE AddRow(createStructure(SubSeq(rs, 1, Len(rs) - 1)), rs[Len(rs)])

\* findProductIdbyPlu: the id of the first product with exactly this PLU,
\* None when there is none.
findProductIdbyPlu(products, plu) ==
    LET hits == {i \in 1..Len(products) : products[i].plu = plu}
    IN  IF hits = {} THEN None
        ELSE products[CHOOSE i \in hits : \A j \in hits : i <= j].id

\* ------------------------------------------------------ the remote service
\* The k-th product of the account's listing: id k.  The first two products
\* share PLU "P1", every later one has "P3"; no product has PLU "P2".
ProductAt(k) == [id |-> k, plu |-> IF k <= 2 THEN "P1" ELSE "P3"]

\* The items of page p when it holds n products.
PageItems(p, n) == [i \in 1..n |-> ProductAt((p - 1) * page_size + i)]

\* The token the remote hands out for a resource.
EtagOf(resource) == <<"etag", resource>>

\* A response to one product-page request (line 179):
\*   "raise"   the request or the JSON decoding raised;
\*   "error"   an error status whose JSON body is a dict without "_items";
\*   "nondict" a JSON body that is not a dict;
\*   "page"    {_items: n products, _meta: {page, total_pages}}, a field of
\*             _meta being None when the body does not carry it.
Response(kind, n, cp, tp) == [kind |-> kind, n |-> n, page |-> cp, total_pages |-> tp]

RaiseResponse == Response("raise", 0, None, None)
ErrorResponse == Response("error", 0, None, None)
NonDictResponse == Response("nondict", 0, None, None)

\* Any response of a listing of at most MaxPages pages: the last page it
\* can hold is never full.
ListingResponses(p) ==
    {RaiseResponse, ErrorResponse, NonDictResponse}
    \cup {Response("page", n, cp, tp) :
             n \in (IF p < MaxPages THEN {0, 120, page_size} ELSE {0, 120}),
             cp \in {None, p},
             tp \in {None, 0, p, p + 1}}

\* The account of the run holds one product more than a page.
ListingSize == page_size + 1

\* The responses of a well-behaved listing of `size` products that reports
\* no page count, each request of which may still fail.
Remaining(size, p) == IF size > (p - 1) * page_size THEN size - (p - 1) * page_size ELSE 0

AccountResponses(size, p) ==
    {RaiseResponse, ErrorResponse,
     Response("page", IF Remaining(size, p) > page_size THEN page_size ELSE Remaining(size, p),
              None, None)}

\* The outcomes of the account-name lookup, getAccountName.
LookupOutcome(kind, status) == [kind |-> kind, status |-> status]
NoLookup == LookupOutcome("none", 0)
LookupOutcomes ==
    {LookupOutcome("ok", 200), LookupOutcome("network", 0)}
    \cup {LookupOutcome("http", st) : st \in {403, 404, 500}}

\* One entry of the log of calls made to the imported functions.
Call(op, c1, c2, p, products, tag, ok) ==
    [op |-> op, c1 |-> c1, c2 |-> c2, page |-> p, products |-> products,
     etag |-> tag, ok |-> ok]
NoEtag == <<>>

\* ------------------------------------------------------------------ state
VARIABLES
    pc,                 \* position of the run in main()
    account_id,         \* the "Account ID" text input ("" when empty)
    menu_name,          \* the "Catalog Name" text input ("" when empty)
    csv_file,           \* TRUE when a CSV file is uploaded
    lookup,             \* the outcome the account-name lookup had (NoLookup: not made)
    has_access,         \* first component of checkAccountAccess's result
    account_name,       \* second component ("" for None)
    rows,               \* rows read from the CSV
    structure,          \* Category1 -> Category2 -> PLU list
    new_menu_id,        \* id of the created catalog (0: not created)
    all_products,       \* products fetched so far
    page,               \* page number of the next product request
    served,             \* the responses to the product-page requests, in order
    results,            \* the result accumulator of lines 212-217
    ci,                 \* index in structure of the current Category1
    si,                 \* index of the current Category2 under it
    new_category_id,    \* id of the category created for structure[ci]
    new_sub_category_id,\* id of the subcategory created for the current Category2
    etag,               \* the etag variable of line 246
    calls               \* every call made to an imported function, in order

vars == <<pc, account_id, menu_name, csv_file, lookup, has_access, account_name,
          rows, structure, new_menu_id, all_products, page, served,
          results, ci, si, new_category_id, new_sub_category_id, etag, calls>>

inputs == <<account_id, menu_name, csv_file>>
access == <<lookup, has_access, account_name>>
setup == <<rows, structure, new_menu_id>>
fetch == <<all_products, page, served>>
cursor == <<ci, si, new_category_id, new_sub_category_id, etag>>

\* The accumulator as created at lines 212-217.
EmptyResults ==
    [categories_created |-> 0, subcategories_created |-> 0, products_added |-> 0,
     errors |-> <<>>]

\* The error strings of lines 249, 278 and 282: their fixed text and the
\* name they quote.
ErrorMsg(text, name) == [text |-> text, name |-> name]

\* The widgets hold their values; nothing has run yet.
Init ==
    /\ pc = "check"
    /\ account_id \in {"", "acc"}
    /\ menu_name \in {"", "menu"}
    /\ csv_file \in BOOLEAN
    /\ lookup = NoLookup
    /\ has_access = FALSE
    /\ account_name = ""
    /\ rows = <<>>
    /\ structure = <<>>
    /\ new_menu_id = 0
    /\ all_products = <<>>
    /\ page = 1
    /\ served = <<>>
    /\ results = EmptyResults
    /\ ci = 0
    /\ si = 0
    /\ new_category_id = 0
    /\ new_sub_category_id = 0
    /\ etag = NoEtag
    /\ calls = <<>>

\* ----------------------------------------------------- checkAccountAccess
\* The result of checkAccountAccess for one outcome of getAccountName:
\* either it raises, or it returns (has_access, account_name).
AccessResult(raised, ok, name) == [raised |-> raised, has_access |-> ok, account_name |-> name]

checkAccountAccess(outcome) ==
    IF outcome.kind = "ok" THEN AccessResult(FALSE, TRUE, "Acme")
    ELSE IF outcome.kind = "http"
         THEN IF outcome.status = 403 THEN AccessResult(FALSE, FALSE, "")
              ELSE AccessResult(TRUE, FALSE, "")
    ELSE AccessResult(FALSE, FALSE, "")

\* Lines 80-96: the check runs when an account id is entered; an exception
\* leaving checkAccountAccess ends the script run.
CheckAccess ==
    /\ pc = "check"
    /\ IF account_id = ""
       THEN /\ pc' = "button"
            /\ UNCHANGED <<access, calls>>
       ELSE \E outcome \in LookupOutcomes :
              LET r == checkAccountAccess(outcome)
              IN  /\ lookup' = outcome
                  /\ calls' = Append(calls, Call("getAccountName", "", "", 0, <<>>, NoEtag,
                                                 outcome.kind = "ok"))
                  /\ IF r.raised
                     THEN /\ pc' = "crashed"
                          /\ UNCHANGED <<has_access, account_name>>
                     ELSE /\ pc' = "button"
                          /\ has_access' = r.has_access
                          /\ account_name' = r.account_name
    /\ UNCHANGED <<inputs, setup, fetch, results, cursor>>

\* Line 101.
all_ready == account_id # "" /\ menu_name # "" /\ csv_file

\* Line 113: the button is enabled when all_ready; pressed, the import starts.
StartImport ==
    /\ pc = "button"
    /\ all_ready
    /\ pc' = "readCsv"
    /\ UNCHANGED <<inputs, access, setup, fetch, results, cursor, calls>>

\* Line 113, button not pressed (or disabled): the script run ends.
NoImport ==
    /\ pc = "button"
    /\ pc' = "idle"
    /\ UNCHANGED <<inputs, access, setup, fetch, results, cursor, calls>>

\* ------------------------------------------------------------ setup steps
\* Lines 137-143; an exception is caught at line 307.
ReadCsv ==
    /\ pc = "readCsv"
    /\ \/ \E r \in SeqsUpTo(Row, MaxRows) :
            /\ rows' = r
            /\ pc' = "createStructure"
            /\ calls' = Append(calls, Call("readCsv", "", "", 0, <<>>, NoEtag, TRUE))
       \/ /\ pc' = "failed"
          /\ calls' = Append(calls, Call("readCsv", "", "", 0, <<>>, NoEtag, FALSE))
          /\ UNCHANGED rows
    /\ UNCHANGED <<inputs, access, structure, new_menu_id, fetch, results, cursor>>

\* Lines 145-151.
CreateStructure ==
    /\ pc = "createStructure"
    /\ \/ /\ structure' = createStructure(rows)
          /\ pc' = "createCatalog"
          /\ calls' = Append(calls, Call("createStructure", "", "", 0, <<>>, NoEtag, TRUE))
       \/ /\ pc' = "failed"
          /\ calls' = Append(calls, Call("createStructure", "", "", 0, <<>>, NoEtag, FALSE))
          /\ UNCHANGED structure
    /\ UNCHANGED <<inputs, access, rows, new_menu_id, fetch, results, cursor>>

\* Lines 153-159.  The remote names a new resource by the number of the call
\* that created it.
CreateCatalog ==
    /\ pc = "createCatalog"
    /\ \/ /\ new_menu_id' = Len(calls) + 1
          /\ pc' = "fetch"
          /\ calls' = Append(calls, Call("createCatalog", "", "", 0, <<>>, NoEtag, TRUE))
       \/ /\ pc' = "failed"
          /\ calls' = Append(calls, Call("createCatalog", "", "", 0, <<>>, NoEtag, FALSE))
          /\ UNCHANGED new_menu_id
    /\ UNCHANGED <<inputs, access, rows, structure, fetch, results, cursor>>

\* ---------------------------------------------------------- product fetch
\* Line 181: the items of a response; None and [] both end the loop.
ItemsOf(resp, p) == IF resp.kind = "page" THEN PageItems(p, resp.n) ELSE <<>>

\* Line 196 with > for >=: a page reporting itself as the last one does not
\* end the loop.
ShouldStopStrict(total_pages, current_page, n) ==
    \/ (Truthy(total_pages) /\ Truthy(current_page) /\ current_page > total_pages)
    \/ n < page_size

\* Line 196: the test that ends the loop after a page with items.
ShouldStop(total_pages, current_page, n) ==
    \/ (Truthy(total_pages) /\ Truthy(current_page) /\ current_page >= total_pages)
    \/ n < page_size

\* Line 199 without the increment: the same page is requested again.
NextPageSame(p) == p

\* Line 199.
NextPage(p) == p + 1

\* Lines 172-199, one pass of the loop for the response `resp` to the
\* request of page `page`; leaving the loop runs lines 201-220.
FetchStep(resp) ==
    /\ pc = "fetch"
    /\ served' = Append(served, resp)
    /\ calls' = Append(calls, Call("getProducts", "", "", page, <<>>, NoEtag,
                                   resp.kind \in {"page", "nondict"}))
    /\ IF resp.kind = "raise"
       THEN /\ pc' = "failed"
            /\ UNCHANGED <<all_products, page>>
       ELSE LET items == ItemsOf(resp, page)
            IN  IF items = <<>>
                THEN /\ pc' = "process"
                     /\ UNCHANGED <<all_products, page>>
                ELSE /\ all_products' = all_products \o items
                     /\ IF ShouldStop(resp.total_pages, resp.page, Len(items))
                        THEN /\ pc' = "process"
                             /\ UNCHANGED page
                        ELSE /\ pc' = "fetch"
                             /\ page' = NextPage(page)
    /\ UNCHANGED <<inputs, access, setup, results, cursor>>

\* The loop against the account's own listing.
FetchPage == \E resp \in AccountResponses(ListingSize, page) : FetchStep(resp)

\* The loop against any listing of at most MaxPages pages.
FetchAnyPage == \E resp \in ListingResponses(page) : FetchStep(resp)

\* ------------------------------------------------- category / subcategory
\* Position after the Category1 at index c is done (line 222).
CategoryDone(c) ==
    IF c < Len(structure)
    THEN /\ pc' = "category"
         /\ ci' = c + 1
         /\ si' = 0
    ELSE /\ pc' = "finish"
         /\ UNCHANGED <<ci, si>>

\* Position after the Category2 at index s of the current Category1 is done
\* (line 236).
SubcategoryDone(s) ==
    IF s < Len(structure[ci].subs)
    THEN /\ pc' = "subcategory"
         /\ si' = s + 1
         /\ UNCHANGED ci
    ELSE CategoryDone(ci)

\* Lines 205-220.
StartProcessing ==
    /\ pc = "process"
    /\ results' = EmptyResults
    /\ CategoryDone(0)
    /\ UNCHANGED <<inputs, access, setup, fetch, new_category_id, new_sub_category_id,
                   etag, calls>>

\* Lines 281-284 with line 228 run before the call: the failed category is
\* counted.
CategoryFailedCounted(res, name) ==
    [res EXCEPT !.errors = Append(@, ErrorMsg("Error in category", name)),
                !.categories_created = @ + 1]

\* Lines 281-284.
CategoryFailed(res, name) ==
    [res EXCEPT !.errors = Append(@, ErrorMsg("Error in category", name))]

\* Line 228.
CategoryCreated(res) == [res EXCEPT !.categories_created = @ + 1]

\* Lines 222-234 and 281-284.
CreateCategory ==
    /\ pc = "category"
    /\ LET name == structure[ci].name
       IN  \/ /\ calls' = Append(calls, Call("createCategories", name, "", 0, <<>>, NoEtag, TRUE))
              /\ new_category_id' = Len(calls) + 1
              /\ results' = CategoryCreated(results)
              /\ SubcategoryDone(0)
           \/ /\ calls' = Append(calls, Call("createCategories", name, "", 0, <<>>, NoEtag, FALSE))
              /\ results' = CategoryFailed(results, name)
              /\ CategoryDone(ci)
              /\ UNCHANGED new_category_id
    /\ UNCHANGED <<inputs, access, setup, fetch, new_sub_category_id, etag>>

\* Lines 277-280 with line 241 run before the call: the failed subcategory
\* is counted.
SubcategoryFailedCounted(res, name) ==
    [res EXCEPT !.errors = Append(@, ErrorMsg("Error in subcategory", name)),
                !.subcategories_created = @ + 1]

\* Lines 277-280.
SubcategoryFailed(res, name) ==
    [res EXCEPT !.errors = Append(@, ErrorMsg("Error in subcategory", name))]

\* Line 241.
SubcategoryCreated(res) == [res EXCEPT !.subcategories_created = @ + 1]

\* Lines 236-242 and 277-280.
CreateSubCategory ==
    /\ pc = "subcategory"
    /\ LET c1 == structure[ci].name
           c2 == structure[ci].subs[si].name
       IN  \/ /\ calls' = Append(calls, Call("createSubCategories", c1, c2, 0, <<>>, NoEtag, TRUE))
              /\ new_sub_category_id' = Len(calls) + 1
              /\ results' = SubcategoryCreated(results)
              /\ pc' = "etag"
              /\ UNCHANGED <<ci, si>>
           \/ /\ calls' = Append(calls, Call("createSubCategories", c1, c2, 0, <<>>, NoEtag, FALSE))
              /\ results' = SubcategoryFailed(results, c2)
              /\ SubcategoryDone(si)
              /\ UNCHANGED new_sub_category_id
    /\ UNCHANGED <<inputs, access, setup, fetch, new_category_id, etag>>

\* Lines 248-251 without line 251: the etag failure is only logged.
EtagFailedSilently(res, name) == res

\* Lines 248-251.
EtagFailed(res, name) ==
    [res EXCEPT !.errors = Append(@, ErrorMsg("Failed to get etag for subcategory", name))]

\* Lines 244-255.
GetEtag ==
    /\ pc = "etag"
    /\ LET c1 == structure[ci].name
           c2 == structure[ci].subs[si].name
       IN  \/ /\ calls' = Append(calls, Call("getEtag", c1, c2, 0, <<>>,
                                             EtagOf(new_sub_category_id), TRUE))
              /\ etag' = EtagOf(new_sub_category_id)
              /\ pc' = "attach"
              /\ UNCHANGED <<results, ci, si>>
           \/ /\ calls' = Append(calls, Call("getEtag", c1, c2, 0, <<>>, NoEtag, FALSE))
              /\ results' = EtagFailed(results, c2)
              /\ SubcategoryDone(si)
              /\ UNCHANGED etag
    /\ UNCHANGED <<inputs, access, setup, fetch, new_category_id, new_sub_category_id>>

\* Lines 257-265 without the test of line 263: an unmatched PLU contributes
\* None.
subProductsUnfiltered(products, plu_list) ==
    [k \in 1..Len(plu_list) |-> findProductIdbyPlu(products, plu_list[k])]

\* Lines 257-265: the ids the PLUs of plu_list resolve to, in list order.
RECURSIVE subProducts(_, _)
subProducts(products, plu_list) ==
    IF plu_list = <<>> THEN <<>>
    ELSE LET product_id == findProductIdbyPlu(products, Head(plu_list))
             rest == subProducts(products, Tail(plu_list))
         IN  IF Truthy(product_id) THEN <<product_id>> \o rest ELSE rest

\* Line 267.
ShouldPatch(ids) == ids # <<>>

\* Line 269: the etag passed to patchSubCategory.
PatchEtag == etag

\* Line 270 counting the patched subcategory instead of the ids sent.
ProductsAddedOne(res, ids) == [res EXCEPT !.products_added = @ + 1]

\* Line 270.
ProductsAdded(res, ids) == [res EXCEPT !.products_added = @ + Len(ids)]

\* Lines 257-280.
AttachProducts ==
    /\ pc = "attach"
    /\ LET c1 == structure[ci].name
           c2 == structure[ci].subs[si].name
           ids == subProducts(all_products, structure[ci].subs[si].plu_list)
       IN  IF ShouldPatch(ids)
           THEN \/ /\ calls' = Append(calls, Call("patchSubCategory", c1, c2, 0, ids, PatchEtag, TRUE))
                   /\ results' = ProductsAdded(results, ids)
                \/ /\ calls' = Append(calls, Call("patchSubCategory", c1, c2, 0, ids, PatchEtag, FALSE))
                   /\ results' = SubcategoryFailed(results, c2)
           ELSE UNCHANGED <<calls, results>>
    /\ SubcategoryDone(si)
    /\ UNCHANGED <<inputs, access, setup, fetch, new_category_id, new_sub_category_id, etag>>

\* Lines 286-305.
Finish ==
    /\ pc = "finish"
    /\ pc' = "completed"
    /\ UNCHANGED <<inputs, access, setup, fetch, results, cursor, calls>>

Next ==
    \/ CheckAccess
    \/ StartImport
    \/ NoImport
    \/ ReadCsv
    \/ CreateStructure
    \/ CreateCatalog
    \/ FetchPage
    \/ StartProcessing
    \/ CreateCategory
    \/ CreateSubCategory
    \/ GetEtag
    \/ AttachProducts
    \/ Finish

Spec == Init /\ [][Next]_vars

\* ------------------------------------------- the product fetch on its own
\* The run has passed the setup steps for an empty CSV and is about to
\* request the first product page.
InitFetch ==
    /\ pc = "fetch"
    /\ account_id = "acc"
    /\ menu_name = "menu"
    /\ csv_file = TRUE
    /\ lookup = LookupOutcome("ok", 200)
    /\ has_access = TRUE
    /\ account_name = "Acme"
    /\ rows = <<>>
    /\ structure = <<>>
    /\ new_menu_id = 4
    /\ all_products = <<>>
    /\ page = 1
    /\ served = <<>>
    /\ results = EmptyResults
    /\ ci = 0
    /\ si = 0
    /\ new_category_id = 0
    /\ new_sub_category_id = 0
    /\ etag = NoEtag
    /\ calls = << Call("getAccountName", "", "", 0, <<>>, NoEtag, TRUE),
                  Call("readCsv", "", "", 0, <<>>, NoEtag, TRUE),
                  Call("createStructure", "", "", 0, <<>>, NoEtag, TRUE),
                  Call("createCatalog", "", "", 0, <<>>, NoEtag, TRUE) >>

NextFetch == FetchAnyPage

SpecFetch == InitFetch /\ [][NextFetch]_vars

\* ---------------------------------------------------- reading the call log
SetupOps == {"readCsv", "createStructure", "createCatalog", "getProducts"}
SubcategoryOps == {"createSubCategories", "getEtag", "patchSubCategory"}
LoopOps == {"createCategories"} \cup SubcategoryOps
ImportOps == SetupOps \cup LoopOps

Made(op) == {i \in 1..Len(calls) : calls[i].op = op}
Succeeded(op) == {i \in Made(op) : calls[i].ok}
MadeFor(op, c1, c2) == {i \in Made(op) : calls[i].c1 = c1 /\ calls[i].c2 = c2}

\* The failed loop calls among the first n calls; the error of the k-th of
\* them is the k-th entry of the error list.
FailedLoopCalls(n) == {i \in 1..n : calls[i].op \in LoopOps /\ ~calls[i].ok}
ErrorIndex(i) == Cardinality(FailedLoopCalls(i))
ErrorOf(i) ==
    IF ErrorIndex(i) \in 1..Len(results.errors)
    THEN results.errors[ErrorIndex(i)] ELSE ErrorMsg("", "")
ErrorsNaming(name) == {k \in 1..Len(results.errors) : results.errors[k].name = name}

\* The number of product ids sent by the successful patch calls among the
\* first n calls.
RECURSIVE PatchedProducts(_)
PatchedProducts(n) ==
    IF n = 0 THEN 0
    ELSE PatchedProducts(n - 1)
         + (IF calls[n].op = "patchSubCategory" /\ calls[n].ok
            THEN Len(calls[n].products) ELSE 0)

\* The PLU list of a Category1/Category2 pair of the structure.
PluListOf(c1, c2) ==
    LET subs == structure[IndexOf(structure, c1)].subs
    IN  subs[IndexOf(subs, c2)].plu_list

\* The ids the PLUs of a list resolve to against the fetched products: one
\* per occurrence of a matched PLU, in list order.
ResolvedIds(plu_list) ==
    LET found == [k \in 1..Len(plu_list) |-> findProductIdbyPlu(all_products, plu_list[k])]
        IsId(x) == x # None
    IN  SelectSeq(found, IsId)

RunOver == pc \in {"finish", "completed"}

\* Every Category2 after position s under the Category1 at position c, and
\* every Category1 after c, was called for after call i.
LaterSubcategoriesTried(i, c, s) ==
    \A t \in (s + 1)..Len(structure[c].subs) :
        \E j \in MadeFor("createSubCategories", structure[c].name, structure[c].subs[t].name) :
            j > i
LaterCategoriesTried(i, c) ==
    \A d \in (c + 1)..Len(structure) :
        \E j \in MadeFor("createCategories", structure[d].name, "") : j > i

CatIndex(i) == IndexOf(structure, calls[i].c1)
SubIndex(i) == IndexOf(structure[CatIndex(i)].subs, calls[i].c2)

\* The call that follows call i, when there is one, is the creation of the
\* next sibling subcategory or, after the last one, of the next category.
NextSiblingFollows(i) ==
    (i < Len(calls)) =>
        LET c == CatIndex(i)
            s == SubIndex(i)
        IN  IF s < Len(structure[c].subs)
            THEN /\ calls[i + 1].op = "createSubCategories"
                 /\ calls[i + 1].c1 = calls[i].c1
                 /\ calls[i + 1].c2 = structure[c].subs[s + 1].name
            ELSE /\ c < Len(structure)
                 /\ calls[i + 1].op = "createCategories"
                 /\ calls[i + 1].c1 = structure[c + 1].name

\* C1: a failed category creation records exactly one error naming the
\* Category1, is not counted in categories_created, leaves every Category2
\* under it without any call, and is followed by the creation of the next
\* Category1 of the structure; every later Category1 gets its call.
C1_CategoryFailureSkipsSubtree ==
    \A i \in Made("createCategories") :
        ~calls[i].ok =>
            LET name == calls[i].c1
            IN  /\ ErrorOf(i) = ErrorMsg("Error in category", name)
                /\ Cardinality(ErrorsNaming(name)) = 1
                /\ Len(results.errors) = Cardinality(FailedLoopCalls(Len(calls)))
                /\ results.categories_created = Cardinality(Succeeded("createCategories"))
                /\ \A j \in 1..Len(calls) : calls[j].op \in SubcategoryOps => calls[j].c1 # name
                /\ (i < Len(calls)) =>
                       /\ CatIndex(i) < Len(structure)
                       /\ calls[i + 1].op = "createCategories"
                       /\ calls[i + 1].c1 = structure[CatIndex(i) + 1].name
                /\ RunOver => LaterCategoriesTried(i, CatIndex(i))

C1_Witness ==
    /\ pc = "completed"
    /\ \E i \in Made("createCategories") :
          /\ ~calls[i].ok
          /\ Len(structure[CatIndex(i)].subs) = 2
          /\ \E j \in Succeeded("createCategories") : j > i

\* C2: a failed subcategory creation under a created Category1 records
\* exactly one error naming the Category2, is not counted in
\* subcategories_created, gets no getEtag or patchSubCategory call, leaves
\* the parent counted in categories_created, and is followed by the next
\* Category2 of the same Category1, then by the remaining Category1 groups.
C2_SubcategoryFailureSkipsSubcategory ==
    \A i \in Made("createSubCategories") :
        ~calls[i].ok =>
            LET c1 == calls[i].c1
                c2 == calls[i].c2
            IN  /\ ErrorOf(i) = ErrorMsg("Error in subcategory", c2)
                /\ Len(results.errors) = Cardinality(FailedLoopCalls(Len(calls)))
                /\ results.subcategories_created = Cardinality(Succeeded("createSubCategories"))
                /\ MadeFor("getEtag", c1, c2) = {}
                /\ MadeFor("patchSubCategory", c1, c2) = {}
                /\ \E j \in Succeeded("createCategories") : j < i /\ calls[j].c1 = c1
                /\ results.categories_created = Cardinality(Succeeded("createCategories"))
                /\ NextSiblingFollows(i)
                /\ RunOver => /\ LaterSubcategoriesTried(i, CatIndex(i), SubIndex(i))
                              /\ LaterCategoriesTried(i, CatIndex(i))

C2_Witness ==
    /\ pc = "completed"
    /\ \E i \in Made("createSubCategories") :
          /\ ~calls[i].ok
          /\ SubIndex(i) < Len(structure[CatIndex(i)].subs)
          /\ CatIndex(i) < Len(structure)
          /\ results.categories_created = 2

\* C3: a failed etag fetch after a successful subcategory creation keeps
\* the subcategory counted, adds nothing to products_added, makes no
\* patchSubCategory call for it, records exactly one error, and is followed
\* by the next subcategory.
C3_EtagFailureSkipsProducts ==
    \A i \in Made("getEtag") :
        ~calls[i].ok =>
            LET c1 == calls[i].c1
                c2 == calls[i].c2
            IN  /\ \E j \in Succeeded("createSubCategories") :
                      j = i - 1 /\ calls[j].c1 = c1 /\ calls[j].c2 = c2
                /\ results.subcategories_created = Cardinality(Succeeded("createSubCategories"))
                /\ MadeFor("patchSubCategory", c1, c2) = {}
                /\ results.products_added = PatchedProducts(Len(calls))
                /\ ErrorOf(i) = ErrorMsg("Failed to get etag for subcategory", c2)
                /\ Len(results.errors) = Cardinality(FailedLoopCalls(Len(calls)))
                /\ NextSiblingFollows(i)
                /\ RunOver => LaterSubcategoriesTried(i, CatIndex(i), SubIndex(i))

C3_Witness ==
    /\ pc = "completed"
    /\ \E i \in Made("getEtag") :
          /\ ~calls[i].ok
          /\ ResolvedIds(PluListOf(calls[i].c1, calls[i].c2)) # <<>>
          /\ SubIndex(i) < Len(structure[CatIndex(i)].subs)
          /\ results.subcategories_created = 2

C5_ProductsAddedCountsPatched ==
    /\ results.products_added = PatchedProducts(Len(calls))
    /\ \A i \in Made("patchSubCategory") :
          ~calls[i].ok =>
              /\ ErrorOf(i) = ErrorMsg("Error in subcategory", calls[i].c2)
              /\ Len(results.errors) = Cardinality(FailedLoopCalls(Len(calls)))
              /\ results.subcategories_created = Cardinality(Succeeded("createSubCategories"))
              /\ \E j \in Succeeded("createSubCategories") :
                    j < i /\ calls[j].c1 = calls[i].c1 /\ calls[j].c2 = calls[i].c2
              /\ NextSiblingFollows(i)
              /\ RunOver => LaterSubcategoriesTried(i, CatIndex(i), SubIndex(i))

C5_Witness ==
    /\ pc = "completed"
    /\ results.products_added = 2
    /\ \E i \in Made("patchSubCategory") : ~calls[i].ok /\ Len(calls[i].products) = 1
    /\ \E i \in Succeeded("patchSubCategory") : Len(calls[i].products) = 2

\* ------------------------------------------------------------- pagination
\* The page requests made, in order.
IsProductRequest(c) == c.op = "getProducts"
Requests == SelectSeq(calls, IsProductRequest)

\* The number of items of a response, none for a response that is no page.
PageLen(resp) == IF resp.kind = "page" THEN resp.n ELSE 0

\* The items of the first n requested pages, in request order.
RECURSIVE ItemsThrough(_)
ItemsThrough(n) ==
    IF n = 0 THEN <<>> ELSE ItemsThrough(n - 1) \o ItemsOf(served[n], n)

\* A page after which the fetch stops: as the claim words it ...
LastAsClaimed(resp) ==
    \/ PageLen(resp) = 0
    \/ PageLen(resp) < page_size
    \/ (resp.page # None /\ resp.total_pages # None /\ resp.page >= resp.total_pages)

\* ... and with the page number and the page count both required non-zero.
LastAmended(resp) ==
    \/ PageLen(resp) = 0
    \/ PageLen(resp) < page_size
    \/ /\ resp.page # None /\ resp.page # 0
       /\ resp.total_pages # None /\ resp.total_pages # 0
       /\ resp.page >= resp.total_pages

Pagination(Last(_)) ==
    /\ Len(Requests) = Len(served)
    /\ \A i \in 1..Len(Requests) : Requests[i].page = i
    /\ \A i \in 1..Len(served) :
          (i < Len(served) \/ pc = "fetch") => (served[i].kind # "raise" /\ ~Last(served[i]))
    /\ pc = "process" => (served # <<>> /\ Last(served[Len(served)]))
    /\ pc \in {"fetch", "process"} => all_products = ItemsThrough(Len(served))
    /\ (/\ pc = "process"
        /\ Len(served) >= 3
        /\ served[1].n = 500 /\ served[2].n = 500 /\ served[3].n = 120)
       => (Len(served) = 3 /\ Len(all_products) = 1120)

\* C6 (as amended): pages are requested in ascending order from 1 with page
\* size 500; the fetch stops after the first page that is empty, or shorter
\* than the page size, or whose reported page number and page count are both
\* non-zero with the number at least the count; the result is the
\* concatenation of the requested pages; pages of 500, 500 and 120 items
\* give 1120 products in 3 requests.
C6_Pagination == Pagination(LastAmended)

\* C6 as claimed: the fetch stops after the first page whose reported page
\* number is at least the reported page count, whatever their values.
C6_PaginationAsClaimed == Pagination(LastAsClaimed)

C6_Witness ==
    /\ pc = "process"
    /\ Len(served) = 3
    /\ served[1] = Response("page", 500, 1, 0)
    /\ served[2].n = 500
    /\ served[3] = Response("page", 120, 3, 4)
    /\ Len(all_products) = 1120

\* ------------------------------------------------------- setup and access
\* C7: after a failed setup step (CSV load, structure build, catalog
\* creation, or a failed or error response to a product-page request) no
\* category or subcategory call is made and the run never completes.
C7_SetupFailureIsFatal ==
    (\E i \in 1..Len(calls) : calls[i].op \in SetupOps /\ ~calls[i].ok) =>
        /\ \A j \in 1..Len(calls) : calls[j].op \notin LoopOps
        /\ pc \notin {"process", "category", "subcategory", "etag", "attach",
                      "finish", "completed"}

\* C8: when the account lookup did not grant access, no import step runs.
C8_NoImportWithoutAccess ==
    (lookup # NoLookup /\ ~has_access) =>
        /\ \A j \in 1..Len(calls) : calls[j].op \notin ImportOps
        /\ pc \in {"check", "button", "idle", "crashed"}

\* C9: a 403 from the lookup gives the access-denied result, and no other
\* failure of the lookup gives that same result.
DeniedResult == pc # "crashed" /\ ~has_access /\ account_name = ""

C9_DeniedIsDistinct ==
    /\ lookup = LookupOutcome("http", 403) => DeniedResult
    /\ (lookup.kind \in {"http", "network"} /\ lookup # LookupOutcome("http", 403))
           => ~DeniedResult

\* C10: no remote call is made twice: createCatalog at most once,
\* createCategories at most once per Category1, createSubCategories,
\* getEtag and patchSubCategory at most once per Category1/Category2 pair,
\* each product page at most once.
RemoteOps == {"createCatalog", "getProducts"} \cup LoopOps

C10_NoRetry ==
    \A i, j \in 1..Len(calls) :
        (/\ i < j
         /\ calls[i].op \in RemoteOps
         /\ calls[i].op = calls[j].op)
        => <<calls[i].c1, calls[i].c2, calls[i].page>> # <<calls[j].c1, calls[j].c2, calls[j].page>>

C10_Witness ==
    /\ pc = "completed"
    /\ Len(Requests) = 2
    /\ Cardinality(Made("createCategories")) = 2
    /\ Cardinality(Made("createSubCategories")) = 2
    /\ Cardinality(FailedLoopCalls(Len(calls))) = 3
====
